---- MODULE Spec2Model ----
(***************************************************************************)
(* A model of src/app.py, the Farm-Tech monitoring page: the weather       *)
(* fetch, the plant selection, the sensor acquisition loop, the            *)
(* environment analysis gate and the image analysis, run by the two        *)
(* app() calls of the __main__ block.                                      *)
(*                                                                         *)
(* Python values are modelled as follows.  A float is [tag |-> "float",    *)
(* value |-> n] with n an integer; None is [tag |-> "None"].  A dict is a  *)
(* function whose DOMAIN is its key set.  A raised exception is the        *)
(* record [exception |-> name].  The streamlit calls (markdown, columns,   *)
(* container) only render and are taken not to raise, set_page_config      *)
(* excepted (see PageSetup).                                               *)
(***************************************************************************)
EXTENDS Integers, Sequences, FiniteSets, TLC

VARIABLES
    pc,            \* position of the script inside app() / __main__
    run,           \* which app() call of __main__ is executing (1 or 2)
    weather_resp,  \* the HTTP response fetch_weather received in this run
    weather_data,  \* app's local weather_data
    plant_name,    \* app's local plant_name
    sensor_data,   \* the dict built by fetch_sensor_data, then app's local
    todo,          \* the metrics the for loop of fetch_sensor_data has left
    requests,      \* pin -> number of requests.get calls in the current call
    outcome,       \* metric -> what its fetch did in the current call
    fetch_calls,   \* fetch_sensor_data calls since the script started
    offered,       \* the "Analyze Environment" button was rendered
    pressed,       \* the "Analyze Environment" button was pressed
    analysis,      \* the call of analyze_environment_with_gemini, if any
    traceback      \* the function whose exception ended the script, or ""

vars == <<pc, run, weather_resp, weather_data, plant_name, sensor_data, todo,
          requests, outcome, fetch_calls, offered, pressed, analysis, traceback>>

----------------------------------------------------------------------------
(* Python values *)

None == [tag |-> "None"]

Num(n) == [tag |-> "float", value |-> n]

EmptyDict == [k \in {} |-> None]

Raise(name) == [exception |-> name]

IsException(r) == DOMAIN r = {"exception"}

\* dict.get(key, default)
Get(d, key, default) == IF key \in DOMAIN d THEN d[key] ELSE default

\* d[key] = value on a dict
SetItem(d, key, value) ==
    [k \in DOMAIN d \cup {key} |-> IF k = key THEN value ELSE d[k]]

\* bool(v) for a float or None: None and 0.0 are falsy
Truthy(v) == v # None /\ v.value # 0

----------------------------------------------------------------------------
(* Module-level tables *)

sensor_pins == [temperature |-> "V0", humidity |-> "V1"]

Metrics == DOMAIN sensor_pins

Pins == {sensor_pins[m] : m \in Metrics}

\* The degree sign of the source strings is dropped.
optimal_conditions ==
    [pepper    |-> [temperature_range |-> "25-30C", humidity_range |-> "60-75%"],
     groundnut |-> [temperature_range |-> "20-28C", humidity_range |-> "50-70%"],
     tomato    |-> [temperature_range |-> "22-28C", humidity_range |-> "65-80%"]]

\* Two of the ten entries; the emoji are named, not drawn.
weather_emojis == [Sunny |-> "sun", Rain |-> "rain cloud"]

DefaultEmoji == "sun behind cloud"

----------------------------------------------------------------------------
(* fetch_weather *)

CurrentFields == {"temp_c", "condition", "wind_kph", "precip_mm", "humidity"}

FullCurrent(text) ==
    [temp_c |-> 30, condition |-> [text |-> text], wind_kph |-> 12,
     precip_mm |-> 0, humidity |-> 70]

Restrict(f, S) == [k \in S |-> f[k]]

\* The "current" object of a response: complete, one field missing, or the
\* condition object without its text.
CurrentShapes(text) ==
    {FullCurrent(text)}
        \cup {Restrict(FullCurrent(text), CurrentFields \ {f}) : f \in CurrentFields}
        \cup {[FullCurrent(text) EXCEPT !.condition = EmptyDict]}

IsComplete(current) ==
    /\ DOMAIN current = CurrentFields
    /\ "text" \in DOMAIN current.condition

ConditionTexts == {"Sunny", "Tornado"}

AlertsShapes == {"missing", "no_list", "empty_list", "no_desc", "desc"}

\* The JSON body with the given "current" object and shape of "alerts".
Body(current, shape) ==
    CASE shape = "missing"    -> [current |-> current]
      [] shape = "no_list"    -> [current |-> current, alerts |-> EmptyDict]
      [] shape = "empty_list" -> [current |-> current, alerts |-> [alert |-> <<>>]]
      [] shape = "no_desc"    -> [current |-> current,
                                  alerts |-> [alert |-> <<EmptyDict>>]]
      [] shape = "desc"       -> [current |-> current,
                                  alerts |-> [alert |-> <<[desc |-> "Flood warning"]>>]]

JsonResponse(body, shape) ==
    [kind |-> "response", status |-> 200, json |-> TRUE, body |-> body,
     alerts_shape |-> shape]

\* What requests.get(url) of fetch_weather can be answered with.
WeatherResponses ==
    {[kind |-> "transport_error"]}
        \cup {[kind |-> "response", status |-> s, json |-> FALSE] : s \in {404, 500}}
        \cup {[kind |-> "response", status |-> 200, json |-> FALSE]}
        \cup {JsonResponse([k \in {} |-> None], "missing")}
        \cup {JsonResponse(Body(FullCurrent(t), a), a) :
                 t \in ConditionTexts, a \in AlertsShapes}
        \cup {JsonResponse(Body(c, "missing"), "missing") :
                 c \in CurrentShapes("Sunny")}

\* weather_data.get("alerts", {}).get("alert", [{}]): the list indexed by [0]
AlertList(wd) == Get(Get(wd, "alerts", EmptyDict), "alert", <<EmptyDict>>)

\* (...)[0].get("desc", "No alerts.") on a non-empty list
AlertOf(wd) == Get(AlertList(wd)[1], "desc", "No alerts.")

\* The try block of fetch_weather: the record it returns, or the exception
\* raised inside it.
WeatherTry(resp) ==
    IF resp.kind = "transport_error" THEN Raise("ConnectionError")
    ELSE IF resp.status >= 400 THEN Raise("HTTPError")
    ELSE IF ~resp.json THEN Raise("JSONDecodeError")
    ELSE LET wd == resp.body IN
        IF "current" \notin DOMAIN wd THEN Raise("KeyError: current")
        ELSE IF "condition" \notin DOMAIN wd.current THEN Raise("KeyError: condition")
        ELSE IF "text" \notin DOMAIN wd.current.condition THEN Raise("KeyError: text")
        ELSE IF "wind_kph" \notin DOMAIN wd.current THEN Raise("KeyError: wind_kph")
        ELSE IF "precip_mm" \notin DOMAIN wd.current THEN Raise("KeyError: precip_mm")
        ELSE IF "humidity" \notin DOMAIN wd.current THEN Raise("KeyError: humidity")
        ELSE IF Len(AlertList(wd)) = 0
             THEN Raise("IndexError: list index out of range")
        ELSE IF "temp_c" \notin DOMAIN wd.current THEN Raise("KeyError: temp_c")
        ELSE [temperature   |-> wd.current.temp_c,
              condition     |-> wd.current.condition.text,
              emoji         |-> Get(weather_emojis, wd.current.condition.text,
                                    DefaultEmoji),
              wind_speed    |-> wd.current.wind_kph,
              precipitation |-> wd.current.precip_mm,
              humidity      |-> wd.current.humidity,
              alert         |-> AlertOf(wd)]

WeatherKeys ==
    {"temperature", "condition", "emoji", "wind_speed", "precipitation",
     "humidity", "alert"}

\* A fetch_weather whose except clause is missing: the exception leaves it.
fetch_weather_uncaught(resp) == WeatherTry(resp)

fetch_weather(resp) ==
    LET r == WeatherTry(resp)
    IN  IF IsException(r) THEN [error |-> r.exception] ELSE r

----------------------------------------------------------------------------
(* fetch_sensor_data *)

\* The numbers the Blynk pins answer with in the model (as decimal text).
SensorNumbers == {0, 24, 27, 31, 65}

\* The payloads of a 200 response: decimal numbers and two non-numeric texts.
SensorTexts == {ToString(n) : n \in SensorNumbers} \cup {"", "offline"}

\* What requests.get(...) of fetch_sensor_data can be answered with.
SensorResponses ==
    {[kind |-> "transport_error"]}
        \cup {[kind |-> "response", status |-> 500, text |-> "Internal error"]}
        \cup {[kind |-> "response", status |-> 200, text |-> t] : t \in SensorTexts}

\* float(text) for the decimal texts of 0..100; any other text is a ValueError.
Float(text) ==
    IF \E n \in 0..100 : ToString(n) = text
    THEN Num(CHOOSE n \in 0..100 : ToString(n) = text)
    ELSE Raise("ValueError")

\* The try block of one loop iteration: the float stored, or the exception.
SensorTry(resp) ==
    IF resp.kind = "transport_error" THEN Raise("ConnectionError")
    ELSE IF resp.status >= 400 THEN Raise("HTTPError")
    ELSE Float(resp.text)

\* A loop body whose handler catches ValueError only: a transport or HTTP
\* error leaves fetch_sensor_data.
SensorStoreValueErrorOnly(sd, sensor, resp) ==
    LET r == SensorTry(resp)
    IN  IF r = Raise("ValueError") THEN SetItem(sd, sensor, None)
        ELSE IF IsException(r) THEN r
        ELSE SetItem(sd, sensor, r)

\* A loop body whose failure handler clears every reading gathered so far.
SensorStoreWipe(sd, sensor, resp) ==
    IF IsException(SensorTry(resp))
    THEN [k \in DOMAIN sd \cup {sensor} |-> None]
    ELSE SetItem(sd, sensor, SensorTry(resp))

\* One loop iteration: sensor_data[sensor] = the float, or None on any exception.
SensorStore(sd, sensor, resp) ==
    LET r == SensorTry(resp)
    IN  SetItem(sd, sensor, IF IsException(r) THEN None ELSE r)

\* A loop that fetches the same metric again when its fetch failed.
AdvanceRetry(rest, resp) ==
    IF IsException(SensorTry(resp)) THEN rest ELSE Tail(rest)

\* The for loop moves on to the next item, whatever the iteration did.
Advance(rest, resp) == Tail(rest)

\* The orders in which the loop can visit the metrics.
Orders ==
    {o \in [1..Cardinality(Metrics) -> Metrics] : \A m \in Metrics : \E i \in DOMAIN o : o[i] = m}

----------------------------------------------------------------------------
(* analyze_environment_with_gemini *)

\* The largest deficit or excess a reply of the generative model names.
MaxDelta == 1

\* What a reply says about one metric.
ReplyVerdicts ==
    {[kind |-> "InRange"], [kind |-> "Unstated"]}
        \cup {[kind |-> k, delta |-> d] : k \in {"BelowRange", "AboveRange"}, d \in 1..MaxDelta}

\* What model.generate_content(...) can be answered with: an error, or a text,
\* abstracted to what it says about each metric.
GeminiAnswers ==
    {[kind |-> "error"]}
        \cup {[kind |-> "text", text |-> [temperature |-> t, humidity |-> h]] :
                 t \in ReplyVerdicts, h \in ReplyVerdicts}

\* The prompt sent and the text returned, or the exception raised.
analyze_environment_with_gemini(temperature, humidity, name, gemini) ==
    IF name \notin DOMAIN optimal_conditions THEN Raise("KeyError")
    ELSE IF gemini.kind = "error" THEN Raise("GoogleAPIError")
    ELSE [prompt |-> [plant_name     |-> name,
                      temperature    |-> temperature,
                      humidity       |-> humidity,
                      temp_range     |-> optimal_conditions[name].temperature_range,
                      humidity_range |-> optimal_conditions[name].humidity_range],
          text   |-> gemini.text]

----------------------------------------------------------------------------
(* app and __main__ *)

\* The number of app() calls of the __main__ block.
AppCalls == 2

\* The options of the "Choose a plant to monitor" selectbox.
PlantOptions == {"pepper", "groundnut", "tomato"}

\* A gate that asks for one reading only.
AnalysisGateAny(sd) ==
    Truthy(Get(sd, "temperature", None)) \/ Truthy(Get(sd, "humidity", None))

\* if sensor_data.get("temperature") and sensor_data.get("humidity")
AnalysisGate(sd) ==
    Truthy(Get(sd, "temperature", None)) /\ Truthy(Get(sd, "humidity", None))

NoResponse == [kind |-> "none"]

NoWeather == [unset |-> TRUE]

NoAnalysis == [called |-> FALSE]

NoRequests == [p \in Pins |-> 0]

Init ==
    /\ pc = "setup"
    /\ run = 1
    /\ weather_resp = NoResponse
    /\ weather_data = NoWeather
    /\ plant_name = ""
    /\ sensor_data = EmptyDict
    /\ todo = <<>>
    /\ requests = NoRequests
    /\ outcome = EmptyDict
    /\ fetch_calls = 0
    /\ offered = FALSE
    /\ pressed = FALSE
    /\ analysis = NoAnalysis
    /\ traceback = ""

\* An uncaught exception ends the script.
Crash(where) ==
    /\ pc' = "crashed"
    /\ traceback' = where

\* Lines 120-169: set_page_config, the style sheet and the header.  Streamlit
\* accepts set_page_config once per script run when it drives the script and
\* any number of times when the script is run bare, so the second call of
\* app() either stops here with an exception or goes on.
PageSetup ==
    /\ pc = "setup"
    /\ \/ pc' = "weather" /\ UNCHANGED traceback
       \/ run > 1 /\ Crash("st.set_page_config")
    /\ UNCHANGED <<run, weather_resp, weather_data, plant_name, sensor_data, todo,
                   requests, outcome, fetch_calls, offered, pressed, analysis>>

\* Lines 171-219: the weather section.
FetchWeather ==
    /\ pc = "weather"
    /\ \E resp \in WeatherResponses :
         LET wd == fetch_weather(resp)
         IN  /\ weather_resp' = resp
             /\ IF IsException(wd)
                THEN /\ Crash("fetch_weather")
                     /\ UNCHANGED weather_data
                ELSE /\ weather_data' = wd
                     /\ pc' = "plant"
                     /\ UNCHANGED traceback
    /\ UNCHANGED <<run, plant_name, sensor_data, todo, requests, outcome,
                   fetch_calls, offered, pressed, analysis>>

\* Lines 224-244: the selectbox and the optimal-conditions cards.
SelectPlant ==
    /\ pc = "plant"
    /\ \E p \in PlantOptions :
         /\ plant_name' = p
         /\ IF p \in DOMAIN optimal_conditions
            THEN pc' = "sensors" /\ UNCHANGED traceback
            ELSE Crash("app")
    /\ UNCHANGED <<run, weather_resp, weather_data, sensor_data, todo, requests,
                   outcome, fetch_calls, offered, pressed, analysis>>

\* Line 248 calls fetch_sensor_data; line 44-45 start its loop.
CallFetchSensorData ==
    /\ pc = "sensors"
    /\ \E o \in Orders : todo' = o
    /\ sensor_data' = EmptyDict
    /\ requests' = NoRequests
    /\ outcome' = EmptyDict
    /\ fetch_calls' = fetch_calls + 1
    /\ pc' = "fetch_loop"
    /\ UNCHANGED <<run, weather_resp, weather_data, plant_name, offered, pressed,
                   analysis, traceback>>

\* Lines 45-53: one iteration of the loop.
FetchOne ==
    /\ pc = "fetch_loop"
    /\ todo # <<>>
    /\ \E resp \in SensorResponses :
         LET sensor == Head(todo)
             stored == SensorStore(sensor_data, sensor, resp)
         IN  /\ requests' = [requests EXCEPT ![sensor_pins[sensor]] = @ + 1]
             /\ outcome' = SetItem(outcome, sensor, resp)
             /\ IF IsException(stored)
                THEN /\ Crash("fetch_sensor_data")
                     /\ UNCHANGED <<sensor_data, todo>>
                ELSE /\ sensor_data' = stored
                     /\ todo' = Advance(todo, resp)
                     /\ UNCHANGED <<pc, traceback>>
    /\ UNCHANGED <<run, weather_resp, weather_data, plant_name, fetch_calls,
                   offered, pressed, analysis>>

\* Line 54 returns the dict; lines 249-261 render it.
FetchReturn ==
    /\ pc = "fetch_loop"
    /\ todo = <<>>
    /\ pc' = "analysis"
    /\ UNCHANGED <<run, weather_resp, weather_data, plant_name, sensor_data, todo,
                   requests, outcome, fetch_calls, offered, pressed, analysis,
                   traceback>>

\* Lines 264-273: the gate, the button and the analysis.
EnvironmentAnalysis ==
    /\ pc = "analysis"
    /\ IF AnalysisGate(sensor_data)
       THEN /\ offered' = TRUE
            /\ \E b \in BOOLEAN :
                 /\ pressed' = b
                 /\ IF b
                    THEN \E g \in GeminiAnswers :
                           LET r == analyze_environment_with_gemini(
                                        Get(sensor_data, "temperature", None),
                                        Get(sensor_data, "humidity", None),
                                        plant_name, g)
                           IN  /\ analysis' =
                                    [called      |-> TRUE,
                                     temperature |-> Get(sensor_data, "temperature", None),
                                     humidity    |-> Get(sensor_data, "humidity", None),
                                     plant_name  |-> plant_name,
                                     result      |-> r]
                               /\ IF IsException(r)
                                  THEN Crash("analyze_environment_with_gemini")
                                  ELSE pc' = "image" /\ UNCHANGED traceback
                    ELSE /\ pc' = "image"
                         /\ UNCHANGED <<analysis, traceback>>
       ELSE /\ pc' = "image"
            /\ UNCHANGED <<offered, pressed, analysis, traceback>>
    /\ UNCHANGED <<run, weather_resp, weather_data, plant_name, sensor_data, todo,
                   requests, outcome, fetch_calls>>

\* Lines 276-289: the uploader, Image.open, the button and the image analysis.
ImageAnalysis ==
    /\ pc = "image"
    /\ \E upload \in {"none", "image", "corrupt"}, b \in BOOLEAN, ok \in BOOLEAN :
         IF upload = "none" THEN pc' = "returned" /\ UNCHANGED traceback
         ELSE IF upload = "corrupt" THEN Crash("Image.open")
         ELSE IF b /\ ~ok THEN Crash("analyze_image_with_gemini")
         ELSE pc' = "returned" /\ UNCHANGED traceback
    /\ UNCHANGED <<run, weather_resp, weather_data, plant_name, sensor_data, todo,
                   requests, outcome, fetch_calls, offered, pressed, analysis>>

\* Lines 293-294: app() returns; __main__ calls it again or the script ends.
AppReturn ==
    /\ pc = "returned"
    /\ IF run < AppCalls
       THEN /\ run' = run + 1
            /\ pc' = "setup"
            /\ weather_resp' = NoResponse
            /\ weather_data' = NoWeather
            /\ plant_name' = ""
            /\ sensor_data' = EmptyDict
            /\ requests' = NoRequests
            /\ outcome' = EmptyDict
            /\ offered' = FALSE
            /\ pressed' = FALSE
            /\ analysis' = NoAnalysis
       ELSE /\ pc' = "exit"
            /\ UNCHANGED <<run, weather_resp, weather_data, plant_name, sensor_data,
                           requests, outcome, offered, pressed, analysis>>
    /\ UNCHANGED <<todo, fetch_calls, traceback>>

Next ==
    \/ PageSetup
    \/ FetchWeather
    \/ SelectPlant
    \/ CallFetchSensorData
    \/ FetchOne
    \/ FetchReturn
    \/ EnvironmentAnalysis
    \/ ImageAnalysis
    \/ AppReturn

Spec == Init /\ [][Next]_vars

\* The script runs on: a step that can be taken is eventually taken.
FairSpec == Spec /\ WF_vars(Next)

----------------------------------------------------------------------------
(* analyze_environment_with_gemini called on its own, with any arguments *)

\* Plant names passed by a direct caller: the table's keys and two others.
AnyPlantNames == DOMAIN optimal_conditions \cup {"maize", ""}

AnyReadings == {None} \cup {Num(n) : n \in SensorNumbers}

CallRecord(temperature, humidity, name, gemini) ==
    [called      |-> TRUE,
     temperature |-> temperature,
     humidity    |-> humidity,
     plant_name  |-> name,
     result      |-> analyze_environment_with_gemini(temperature, humidity, name, gemini)]

InitAnalyze ==
    /\ pc = "call"
    /\ run = 1
    /\ weather_resp = NoResponse
    /\ weather_data = NoWeather
    /\ plant_name \in AnyPlantNames
    /\ sensor_data \in {[temperature |-> t, humidity |-> h] :
                           t \in AnyReadings, h \in AnyReadings}
    /\ todo = <<>>
    /\ requests = NoRequests
    /\ outcome = EmptyDict
    /\ fetch_calls = 0
    /\ offered = FALSE
    /\ pressed = FALSE
    /\ analysis = NoAnalysis
    /\ traceback = ""

\* Lines 101-114, called with the arguments drawn by InitAnalyze.
DirectCall ==
    /\ pc = "call"
    /\ \E g \in GeminiAnswers :
         /\ analysis' = CallRecord(sensor_data.temperature, sensor_data.humidity,
                                   plant_name, g)
         /\ IF IsException(analysis'.result)
            THEN Crash("analyze_environment_with_gemini")
            ELSE pc' = "called" /\ UNCHANGED traceback
    /\ UNCHANGED <<run, weather_resp, weather_data, plant_name, sensor_data, todo,
                   requests, outcome, fetch_calls, offered, pressed>>

SpecAnalyze == InitAnalyze /\ [][DirectCall]_vars

----------------------------------------------------------------------------
(* What the properties below speak of *)

\* fetch_sensor_data has returned to app in this run.
Acquired == pc \in {"analysis", "image", "returned", "exit"}

\* The fetch answered 200 with the decimal text of a number.
Succeeded(resp) ==
    /\ resp.kind = "response"
    /\ resp.status = 200
    /\ \E n \in SensorNumbers : resp.text = ToString(n)

\* The number a successful fetch answered with.
ValueSent(resp) == CHOOSE n \in SensorNumbers : resp.text = ToString(n)

\* The closed interval a range string of optimal_conditions denotes.
RangeOf(text) ==
    CASE text = "25-30C" -> [lo |-> 25, hi |-> 30]
      [] text = "20-28C" -> [lo |-> 20, hi |-> 28]
      [] text = "22-28C" -> [lo |-> 22, hi |-> 28]
      [] text = "60-75%" -> [lo |-> 60, hi |-> 75]
      [] text = "50-70%" -> [lo |-> 50, hi |-> 70]
      [] text = "65-80%" -> [lo |-> 65, hi |-> 80]

\* The verdict of the range law for reading r and range [lo, hi].
Evaluate(r, range) ==
    IF range.lo <= r /\ r <= range.hi THEN [kind |-> "InRange"]
    ELSE IF r < range.lo THEN [kind |-> "BelowRange", delta |-> range.lo - r]
    ELSE [kind |-> "AboveRange", delta |-> r - range.hi]

\* The profile a finished analysis put in its prompt.
ProfileUsed(result) ==
    [temperature_range |-> result.prompt.temp_range,
     humidity_range    |-> result.prompt.humidity_range]

\* The default profile of the fallback law; the source defines none.
DefaultProfile == [temperature_range |-> "default", humidity_range |-> "default"]

----------------------------------------------------------------------------
(* Properties *)

\* C1: per-metric isolation.  Every metric fetched so far in this call has a
\* reading, which is the number its own fetch answered with when that fetch
\* succeeded and None when it failed, whatever the other fetches did and in
\* whatever order the metrics are visited.
C1_Isolation ==
    \A m \in DOMAIN outcome :
        /\ m \in DOMAIN sensor_data
        /\ Succeeded(outcome[m]) => sensor_data[m] = Num(ValueSent(outcome[m]))
        /\ ~Succeeded(outcome[m]) => sensor_data[m] = None

\* C1 witness: the temperature fetch failed in transport and the humidity
\* fetch, in the same call, still delivered 65.
C1_Witness ==
    /\ pc = "analysis"
    /\ outcome["temperature"].kind = "transport_error"
    /\ Succeeded(outcome["humidity"])
    /\ sensor_data = [temperature |-> None, humidity |-> Num(65)]

\* C2: fetch_sensor_data raises nothing and returns a dict with exactly the
\* keys of sensor_pins, each a float or None, after every metric was fetched.
C2_CompleteMapping ==
    /\ traceback # "fetch_sensor_data"
    /\ Acquired =>
        /\ DOMAIN sensor_data = DOMAIN sensor_pins
        /\ DOMAIN outcome = DOMAIN sensor_pins
        /\ \A m \in DOMAIN sensor_data :
               sensor_data[m] = None \/ sensor_data[m].tag = "float"

\* C2 witness: a call in which both fetches failed, differently, has returned.
C2_Witness ==
    /\ pc = "analysis"
    /\ outcome["temperature"].kind = "response"
    /\ outcome["temperature"].status = 500
    /\ outcome["humidity"].kind = "response"
    /\ outcome["humidity"].status = 200
    /\ outcome["humidity"].text = "offline"
    /\ sensor_data = [temperature |-> None, humidity |-> None]

\* C3: in one call of fetch_sensor_data each pin is requested at most once
\* while the loop runs and exactly once by the time the call has returned,
\* whether the request failed or not.
C3_OneRequestPerMetric ==
    /\ \A p \in Pins : requests[p] <= 1
    /\ Acquired => \A p \in Pins : requests[p] = 1

\* C3 witness: a call has returned in which the temperature request failed
\* and was issued once.
C3_Witness ==
    /\ pc = "analysis"
    /\ ~Succeeded(outcome["temperature"])
    /\ Succeeded(outcome["humidity"])
    /\ requests = [p \in Pins |-> 1]

\* C4: range law.  Whenever the program has analysed present readings for the
\* selected plant, what it reports for each metric is InRange iff
\* lo <= r <= hi, BelowRange(lo - r) iff r < lo and AboveRange(r - hi) iff
\* r > hi, for the range [lo, hi] of that plant's profile.
C4_RangeLaw ==
    (analysis.called /\ ~IsException(analysis.result)) =>
        /\ analysis.result.text["temperature"] =
               Evaluate(analysis.temperature.value,
                        RangeOf(optimal_conditions[analysis.plant_name].temperature_range))
        /\ analysis.result.text["humidity"] =
               Evaluate(analysis.humidity.value,
                        RangeOf(optimal_conditions[analysis.plant_name].humidity_range))

\* C5: fallback law.  The profile lookup of analyze_environment_with_gemini
\* never fails: for a plant name of the table the profile used is the table's,
\* for any other name it is the default profile.
C5_FallbackLaw ==
    analysis.called =>
        /\ analysis.result # Raise("KeyError")
        /\ ~IsException(analysis.result) =>
               ProfileUsed(analysis.result) =
                   IF analysis.plant_name \in DOMAIN optimal_conditions
                   THEN optimal_conditions[analysis.plant_name]
                   ELSE DefaultProfile

\* C6: only an absent reading is no-data.  Once the page is past the analysis
\* section, if both fetches of the run succeeded with a number (0 included),
\* the environment analysis was offered.
C6_ZeroIsData ==
    (pc \in {"image", "returned"}
         /\ Succeeded(outcome["temperature"]) /\ Succeeded(outcome["humidity"]))
        => offered

\* C7: one execution of the script performs one acquisition pass:
\* fetch_sensor_data is called at most once, and exactly once by the time the
\* script ends normally.
C7_OneAcquisitionPerScript ==
    /\ fetch_calls <= 1
    /\ pc = "exit" => fetch_calls = 1

\* C8: analyze_environment_with_gemini is invoked only with the button
\* offered and pressed, with the two readings of this run's acquisition, both
\* present, and with a plant name that is a key of optimal_conditions.
C8_AnalysisGuard ==
    analysis.called =>
        /\ offered
        /\ pressed
        /\ DOMAIN sensor_data = DOMAIN sensor_pins
        /\ analysis.temperature = sensor_data["temperature"]
        /\ analysis.humidity = sensor_data["humidity"]
        /\ analysis.temperature # None
        /\ analysis.humidity # None
        /\ analysis.plant_name = plant_name
        /\ analysis.plant_name \in DOMAIN optimal_conditions

\* C8 witness: the analysis was invoked, for tomato, and returned a text.
C8_Witness ==
    /\ analysis.called
    /\ ~IsException(analysis.result)
    /\ analysis.plant_name = "tomato"
    /\ pressed

\* The weather request succeeded with a JSON body whose "current" object is
\* complete.
WeatherComplete ==
    /\ weather_resp.kind = "response"
    /\ weather_resp.status = 200
    /\ weather_resp.json
    /\ "current" \in DOMAIN weather_resp.body
    /\ IsComplete(weather_resp.body.current)

\* C9: when the weather request succeeded and all current-condition fields
\* are there, fetch_weather returns the full record, without an 'error' key,
\* and with alert 'No alerts.' when the alerts object is missing, the alert
\* list is missing, the alert list is empty or the first alert has no desc.
C9_AlertShapes ==
    (WeatherComplete /\ weather_data # NoWeather) =>
        /\ DOMAIN weather_data = WeatherKeys
        /\ weather_resp.alerts_shape \in {"missing", "no_list", "empty_list", "no_desc"}
               => weather_data.alert = "No alerts."

\* The weather request itself failed: transport, HTTP status or body.
WeatherFailed ==
    \/ weather_resp.kind = "transport_error"
    \/ weather_resp.kind = "response" /\ weather_resp.status >= 400
    \/ weather_resp.kind = "response" /\ ~weather_resp.json

\* C10: fetch_weather lets no exception out: what app holds after it is the
\* full record or a record with the 'error' key only, the latter whenever
\* the request failed; and every run of app that starts reaches the end of
\* its sensor acquisition pass.
C10_WeatherNeverBlocks ==
    /\ [](traceback # "fetch_weather")
    /\ [](weather_data # NoWeather =>
            /\ DOMAIN weather_data = WeatherKeys \/ DOMAIN weather_data = {"error"}
            /\ WeatherFailed => DOMAIN weather_data = {"error"})
    /\ \A r \in 1..AppCalls :
           (run = r /\ pc = "weather") ~> (run = r /\ pc = "analysis")

\* C10 witness: the weather fetch of the second run failed in transport and
\* the sensor acquisition of that run has finished.
C10_Witness ==
    /\ run = AppCalls
    /\ pc = "analysis"
    /\ weather_resp.kind = "transport_error"
    /\ DOMAIN weather_data = {"error"}
    /\ DOMAIN sensor_data = DOMAIN sensor_pins

====
